---- MODULE Spec2Model ----
(***************************************************************************)
(* Secure Cell, Seal mode with a passphrase                                *)
(* (src/src/themis/secure_cell_seal_passphrase.c).                         *)
(*                                                                         *)
(* One call of the encrypt or the decrypt entry point is in flight at a    *)
(* time; pc is its position.  A 32-bit algorithm id is the set of its set  *)
(* bits (a subset of 0..31), so that &, | and ~ are set operations at full *)
(* width.  A size_t is a pair [hi, lo] standing for hi * 2^32 + lo.  A     *)
(* byte string is known by its length and an abstract content value; 0 is  *)
(* the all-zero content.  An optional value (a buffer not yet written, a   *)
(* ghost not yet set) is a sequence of length 0 or 1.                      *)
(***************************************************************************)
EXTENDS Integers, Sequences, FiniteSets, TLC

VARIABLES
    pc,      \* position of the call in flight
    op,      \* "none", "encrypt" or "decrypt"
    args,    \* the call's input arguments
    out,     \* caller-owned output memory: buffers and *length cells
    entry,   \* out as it was at call entry
    frame,   \* locals of the inner pipeline function
    ret,     \* status returned to the caller
    log,     \* ghost: pipeline steps executed, in order
    ghost,   \* ghost: what the primitives were asked, first failure, wipe
    probe,   \* ghost: sizes written by the previous call of the same inputs
    origin   \* ghost: what the token under decryption was made from

vars == <<pc, op, args, out, entry, frame, ret, log, ghost, probe, origin>>

(***************************** bounds *************************************)
MaxMsgLen == 2
MaxRand == 2
MaxSlack == 1

(************************** status codes **********************************)
THEMIS_SUCCESS == "THEMIS_SUCCESS"
THEMIS_FAIL == "THEMIS_FAIL"
THEMIS_INVALID_PARAMETER == "THEMIS_INVALID_PARAMETER"
THEMIS_BUFFER_TOO_SMALL == "THEMIS_BUFFER_TOO_SMALL"
\* what the token readers return for malformed framing
THEMIS_DATA_CORRUPT == "THEMIS_DATA_CORRUPT"

\* statuses a failing primitive (CSPRNG, KDF, AEAD, codec) may hand back
PrimitiveErrors == {THEMIS_FAIL, THEMIS_INVALID_PARAMETER}

(*********************** 32-bit words as bit sets *************************)
Bits32 == 0..31
BitAnd(a, b) == a \cap b
BitOr(a, b) == a \cup b
BitNot(a) == Bits32 \ a

RECURSIVE Pow2(_)
Pow2(n) == IF n = 0 THEN 1 ELSE 2 * Pow2(n - 1)

\* numeric value of a word whose set bits all lie below bit 31
RECURSIVE WordValue(_)
WordValue(w) ==
    IF w = {} THEN 0
    ELSE LET b == CHOOSE x \in w : TRUE
         IN  Pow2(b) + WordValue(w \ {b})

\* the word of a number below 2^31
Word(n) == {b \in 0..30 : (n \div Pow2(b)) % 2 = 1}

(************************* soter/soter_sym.h ******************************)
SOTER_SYM_KEY_LENGTH_MASK == 0..11     \* 0x00000fff
SOTER_SYM_PADDING_MASK == 16..19       \* 0x000f0000
SOTER_SYM_KDF_MASK == 24..27           \* 0x0f000000
SOTER_SYM_ALG_MASK == 28..31           \* 0xf0000000
SOTER_SYM_NOKDF == {}                  \* 0x00000000
SOTER_SYM_PBKDF2 == {24}               \* 0x01000000
SOTER_SYM_AES_GCM == {30, 16}          \* 0x40010000
SOTER_SYM_256_KEY_LENGTH == 256
SOTER_SYM_192_KEY_LENGTH == 192
SOTER_SYM_128_KEY_LENGTH == 128

(*********************** themis/sym_enc_message.h *************************)
THEMIS_AUTH_SYM_KEY_LENGTH == 256
THEMIS_AUTH_SYM_MAX_KEY_LENGTH == 256
THEMIS_AUTH_SYM_IV_LENGTH == 12
THEMIS_AUTH_SYM_AUTH_TAG_LENGTH == 16
THEMIS_AUTH_SYM_PBKDF2_SALT_LENGTH == 16
THEMIS_AUTH_SYM_PBKDF2_ITERATIONS == 200000
THEMIS_AUTH_SYM_PASSPHRASE_ALG ==
    BitOr(SOTER_SYM_AES_GCM, BitOr(SOTER_SYM_PBKDF2, Word(SOTER_SYM_256_KEY_LENGTH)))

(************************ themis/secure_cell_alg.h ************************)
themis_scell_auth_token_passphrase_min_size == 20
themis_scell_pbkdf2_context_min_size == 8

(******************************* size_t ***********************************)
SizeT(h, l) == [hi |-> h, lo |-> l]
SizeLT(a, b) == a.hi < b.hi \/ (a.hi = b.hi /\ a.lo < b.lo)
ExceedsUINT32_MAX(a) == a.hi > 0
CastU32(a) == a.lo

(************************ abstract byte strings ***************************)
\* contents of the derived-key buffer: all zero, or a PBKDF2 output
ZeroKey == [pass |-> 0, plen |-> 0, salt |-> 0, slen |-> 0, iter |-> 0, len |-> 0]
\* contents of the tag buffer: all zero, or the tag of one AEAD encryption
ZeroTag == [alg |-> {}, key |-> ZeroKey, iv |-> 0, ivlen |-> 0, aad |-> 0, aadlen |-> 0,
            ct |-> 0, ctlen |-> 0]
ContentMod == MaxRand + 3

(************** external primitives (soter, sym_enc_message) **************)
\* PBKDF2-HMAC-SHA256: an injective function of everything it is given
soter_pbkdf2_sha256(passphrase, passphrase_length, salt, salt_length, iterations, key_length) ==
    [pass |-> passphrase, plen |-> passphrase_length, salt |-> salt, slen |-> salt_length,
     iter |-> iterations, len |-> key_length]

\* the key stream of the plain AEAD for a key and an IV
KeyStream(key, iv) == (key.pass + key.salt + key.len + iv) % ContentMod

AeadTag(alg, key, iv, iv_length, aad, aad_length, ct, ct_length) ==
    [alg |-> alg, key |-> key, iv |-> iv, ivlen |-> iv_length, aad |-> aad,
     aadlen |-> aad_length, ct |-> ct, ctlen |-> ct_length]

\* themis_auth_sym_plain_encrypt on success: ciphertext of the message's
\* length and the authentication tag over everything the AEAD was given
themis_auth_sym_plain_encrypt(alg, key, iv, iv_length, aad, aad_length, msg, msg_length) ==
    LET c == (msg + KeyStream(key, iv)) % ContentMod
    IN  [ct |-> c, ctlen |-> msg_length,
         tag |-> AeadTag(alg, key, iv, iv_length, aad, aad_length, c, msg_length)]

\* themis_auth_sym_plain_decrypt: the tag verifies iff it is the tag of this
\* ciphertext under the same algorithm, key, IV and associated data
themis_auth_sym_plain_decrypt(alg, key, iv, iv_length, aad, aad_length, ct, ct_length, tag) ==
    [ok |-> tag = AeadTag(alg, key, iv, iv_length, aad, aad_length, ct, ct_length),
     msg |-> (ct + ContentMod - KeyStream(key, iv)) % ContentMod,
     msglen |-> ct_length]

(************ token and KDF-context codec (secure_cell_alg.h) *************)
themis_scell_pbkdf2_context_size(kdf) ==
    themis_scell_pbkdf2_context_min_size + kdf.salt_length

themis_scell_auth_token_passphrase_size(hdr) ==
    themis_scell_auth_token_passphrase_min_size + hdr.iv_length + hdr.auth_tag_length
        + hdr.kdf_context_length

\* first pass: the envelope, IV and tag; the KDF-context slot is reserved
themis_write_scell_auth_token_passphrase(hdr, iv, auth_tag) ==
    [alg |-> hdr.alg, iv_length |-> hdr.iv_length, auth_tag_length |-> hdr.auth_tag_length,
     message_length |-> hdr.message_length, kdf_context_length |-> hdr.kdf_context_length,
     iv |-> iv, auth_tag |-> auth_tag, kdf_context |-> <<>>]

\* second pass: the KDF context goes into the reserved slot
themis_write_scell_pbkdf2_context(token, kdf, salt) ==
    [token EXCEPT !.kdf_context =
        <<[iteration_count |-> kdf.iteration_count, salt_length |-> kdf.salt_length,
           salt |-> salt]>>]

\* bytes a token on the wire needs for its declared variable fields
WireSize(token) ==
    themis_scell_auth_token_passphrase_min_size + token.iv_length + token.auth_tag_length
        + token.kdf_context_length

\* shallow parse: only the envelope has to be there
themis_scell_auth_token_message_size_ok(token, token_length) ==
    token_length >= themis_scell_auth_token_passphrase_min_size

\* full parse of the envelope and the variable fields
themis_read_scell_auth_token_passphrase_ok(token, token_length) ==
    token_length >= WireSize(token)

themis_read_scell_auth_token_passphrase(token) ==
    [alg |-> token.alg, iv_length |-> token.iv_length,
     auth_tag_length |-> token.auth_tag_length, message_length |-> token.message_length,
     kdf_context_length |-> token.kdf_context_length]

\* parse of the KDF context out of its slot
themis_read_scell_pbkdf2_context_ok(token) ==
    /\ token.kdf_context # <<>>
    /\ token.kdf_context_length
           = themis_scell_pbkdf2_context_min_size + token.kdf_context[1].salt_length

themis_read_scell_pbkdf2_context(token) ==
    [iteration_count |-> token.kdf_context[1].iteration_count,
     salt_length |-> token.kdf_context[1].salt_length]

(******************** algorithm-field helpers (C file) ********************)
\* faulty variant: the no-KDF selector is or-ed in, the KDF field not cleared
soter_alg_without_kdf_NotCleared(alg) == BitOr(alg, SOTER_SYM_NOKDF)

soter_alg_without_kdf(alg) ==
    BitOr(BitAnd(alg, BitNot(SOTER_SYM_KDF_MASK)), SOTER_SYM_NOKDF)

soter_alg_key_length(alg) ==
    WordValue(BitAnd(alg, SOTER_SYM_KEY_LENGTH_MASK)) \div 8

\* faulty variant: bits 12..15 are taken for part of the key-length field
soter_alg_reserved_bits_valid_WideMask(alg) ==
    LET used_bits == BitOr(0..15,
                        BitOr(SOTER_SYM_PADDING_MASK,
                           BitOr(SOTER_SYM_KDF_MASK, SOTER_SYM_ALG_MASK)))
    IN  BitAnd(alg, BitNot(used_bits)) = {}

soter_alg_reserved_bits_valid(alg) ==
    LET used_bits == BitOr(SOTER_SYM_KEY_LENGTH_MASK,
                        BitOr(SOTER_SYM_PADDING_MASK,
                           BitOr(SOTER_SYM_KDF_MASK, SOTER_SYM_ALG_MASK)))
    IN  BitAnd(alg, BitNot(used_bits)) = {}

\* faulty variant: the salt is left out of the default token size
DEFAULT_AUTH_TOKEN_SIZE_NoSalt ==
    themis_scell_auth_token_passphrase_min_size + THEMIS_AUTH_SYM_IV_LENGTH
        + THEMIS_AUTH_SYM_AUTH_TAG_LENGTH + themis_scell_pbkdf2_context_min_size

DEFAULT_AUTH_TOKEN_SIZE ==
    themis_scell_auth_token_passphrase_min_size + THEMIS_AUTH_SYM_IV_LENGTH
        + THEMIS_AUTH_SYM_AUTH_TAG_LENGTH + themis_scell_pbkdf2_context_min_size
        + THEMIS_AUTH_SYM_PBKDF2_SALT_LENGTH

(***************************** ghost state ********************************)
NoGhost ==
    [inner |-> FALSE,       \* the inner pipeline function was entered
     wiped |-> FALSE,       \* the wipe block has run
     faulted |-> FALSE,     \* a primitive did not behave as the ideal one
     first_fail |-> <<>>,   \* the first pipeline step that failed, its status
     rand |-> 0,            \* CSPRNG draws
     pbkdf2 |-> <<>>,       \* PBKDF2 invocations: requested length, output
     aead |-> <<>>,         \* AEAD invocations: algorithm, key, header alg
     inner_bts |-> FALSE]   \* the inner token-size check refused

NoFrame ==
    [res |-> THEMIS_FAIL, iv |-> 0, salt |-> 0, auth_tag |-> ZeroTag,
     derived_key |-> ZeroKey, derived_key_length |-> 0, auth_tag_length |-> 0,
     hdr |-> <<>>, kdf |-> <<>>]

\* a pipeline step fails with a status: the first such failure is recorded
Failed(g, step, status) ==
    IF g.first_fail = <<>>
    THEN [g EXCEPT !.first_fail = <<[step |-> step, status |-> status]>>]
    ELSE g

Fault(g, step, status) == [Failed(g, step, status) EXCEPT !.faulted = TRUE]

(************************* the caller's inputs ****************************)
\* a pointer is 0 (NULL) or the identity of what it points to
PassArgs ==
    {[ptr |-> 0, len |-> 0], [ptr |-> 1, len |-> 0], [ptr |-> 1, len |-> 6],
     [ptr |-> 2, len |-> 6]}

CtxArgs ==
    {[ptr |-> 0, len |-> 0], [ptr |-> 0, len |-> 3], [ptr |-> 1, len |-> 0],
     [ptr |-> 1, len |-> 3], [ptr |-> 2, len |-> 3]}

\* messages: NULL, empty, of 1..MaxMsgLen bytes, and of 2^32 bytes
MsgArgs ==
    {[ptr |-> 0, len |-> SizeT(0, 0)], [ptr |-> 1, len |-> SizeT(0, 0)],
     [ptr |-> 1, len |-> SizeT(1, 0)]}
    \cup {[ptr |-> v, len |-> SizeT(0, n)] : v \in 1..2, n \in 1..MaxMsgLen}

TokenCaps ==
    {0} \cup {n \in (DEFAULT_AUTH_TOKEN_SIZE - MaxSlack)..(DEFAULT_AUTH_TOKEN_SIZE + MaxSlack) :
                n >= 0}

CiphertextCaps ==
    {SizeT(0, n) : n \in 0..(MaxMsgLen + MaxSlack)} \cup {SizeT(1, 0)}

(************************ encrypt: entry point ****************************)
Return(status) ==
    /\ pc' = "returned"
    /\ ret' = status

\* the call begins: positions and ghosts are reset
Begin(operation, position) ==
    /\ op' = operation
    /\ pc' = position
    /\ frame' = NoFrame
    /\ ret' = "none"
    /\ log' = <<>>
    /\ ghost' = NoGhost

EncryptArgs(pass, msg, ctx, tokp, toklp, ctp, ctlp) ==
    [passphrase |-> pass.ptr, passphrase_length |-> pass.len,
     message |-> msg.ptr, message_length |-> msg.len,
     user_context |-> ctx.ptr, user_context_length |-> ctx.len,
     auth_token |-> tokp, auth_token_length |-> toklp,
     encrypted_message |-> ctp, encrypted_message_length |-> ctlp]

\* the caller invokes themis_auth_sym_encrypt_message_with_passphrase
EncryptEntry ==
    /\ pc = "idle"
    /\ \E pass \in PassArgs, msg \in MsgArgs, ctx \in CtxArgs,
          tokp \in BOOLEAN, toklp \in BOOLEAN, tokl \in TokenCaps,
          ctp \in BOOLEAN, ctlp \in BOOLEAN, ctl \in CiphertextCaps :
          /\ ~toklp => tokl = 0
          /\ ~ctlp => ctl = SizeT(0, 0)
          /\ args' = EncryptArgs(pass, msg, ctx, tokp, toklp, ctp, ctlp)
          /\ out' = [auth_token |-> <<>>, auth_token_length |-> tokl,
                     encrypted_message |-> <<>>, encrypted_message_length |-> ctl]
    /\ entry' = out'
    /\ probe' = <<>>
    /\ origin' = <<>>
    /\ Begin("encrypt", "enc_params")

\* after buffer-too-small the caller calls again with the same inputs: with
\* buffers of exactly the sizes reported, or with other buffers
EncryptRetry ==
    /\ pc = "returned" /\ op = "encrypt" /\ ret = THEMIS_BUFFER_TOO_SMALL
    /\ ~ExceedsUINT32_MAX(out.encrypted_message_length)
    /\ \E tokp \in BOOLEAN, ctp \in BOOLEAN, tokl \in TokenCaps, ctl \in CiphertextCaps :
          /\ args' = [args EXCEPT !.auth_token = tokp, !.encrypted_message = ctp]
          /\ out' = [auth_token |-> <<>>, auth_token_length |-> tokl,
                     encrypted_message |-> <<>>, encrypted_message_length |-> ctl]
    /\ entry' = out'
    /\ probe' = <<[auth_token_length |-> out.auth_token_length,
                   encrypted_message_length |-> out.encrypted_message_length,
                   exact |-> /\ out'.auth_token_length = out.auth_token_length
                             /\ out'.encrypted_message_length = out.encrypted_message_length
                             /\ args'.auth_token /\ args'.encrypted_message]>>
    /\ origin' = <<>>
    /\ Begin("encrypt", "enc_params")

\* THEMIS_CHECK_PARAM block of the encrypt entry point
EncryptParamsValid(a) ==
    /\ a.passphrase # 0 /\ a.passphrase_length # 0
    /\ a.message # 0 /\ a.message_length # SizeT(0, 0)
    /\ IF a.user_context # 0 THEN a.user_context_length # 0
                             ELSE a.user_context_length = 0
    /\ a.auth_token_length
    /\ a.encrypted_message_length

EncryptCheckParams ==
    /\ pc = "enc_params"
    /\ IF EncryptParamsValid(args)
       THEN pc' = "enc_negotiate" /\ ret' = ret
       ELSE Return(THEMIS_INVALID_PARAMETER)
    /\ UNCHANGED <<op, args, out, entry, frame, log, ghost, probe, origin>>

\* the condition under which the entry point only reports sizes
EncryptMustProbe(a, o) ==
    \/ ~a.auth_token_length
    \/ ~a.encrypted_message
    \/ o.auth_token_length < DEFAULT_AUTH_TOKEN_SIZE
    \/ SizeLT(o.encrypted_message_length, a.message_length)

EncryptNegotiate ==
    /\ pc = "enc_negotiate"
    /\ IF EncryptMustProbe(args, out)
       THEN /\ out' = [out EXCEPT !.auth_token_length = DEFAULT_AUTH_TOKEN_SIZE,
                                  !.encrypted_message_length = args.message_length]
            /\ Return(THEMIS_BUFFER_TOO_SMALL)
            /\ ghost' = ghost
       ELSE /\ pc' = "enc_init"
            /\ ghost' = [ghost EXCEPT !.inner = TRUE]
            /\ UNCHANGED <<out, ret>>
    /\ UNCHANGED <<op, args, entry, frame, log, probe, origin>>

(*********************** encrypt: inner pipeline **************************)
\* the KDF parameters of a new token
EncInitKdf ==
    [iteration_count |-> THEMIS_AUTH_SYM_PBKDF2_ITERATIONS,
     salt_length |-> THEMIS_AUTH_SYM_PBKDF2_SALT_LENGTH]

\* faulty variant: the header declares one byte more than the message has
EncInitHdr_LengthOff(message_length, kdf) ==
    [alg |-> THEMIS_AUTH_SYM_PASSPHRASE_ALG,
     iv_length |-> THEMIS_AUTH_SYM_IV_LENGTH,
     auth_tag_length |-> THEMIS_AUTH_SYM_AUTH_TAG_LENGTH,
     message_length |-> CastU32(message_length) + 1,
     kdf_context_length |-> themis_scell_pbkdf2_context_size(kdf)]

\* the header of a new token; iv and auth_tag point at the frame's buffers
EncInitHdr(message_length, kdf) ==
    [alg |-> THEMIS_AUTH_SYM_PASSPHRASE_ALG,
     iv_length |-> THEMIS_AUTH_SYM_IV_LENGTH,
     auth_tag_length |-> THEMIS_AUTH_SYM_AUTH_TAG_LENGTH,
     message_length |-> CastU32(message_length),
     kdf_context_length |-> themis_scell_pbkdf2_context_size(kdf)]

\* faulty variant: the wipe block forgets the derived key
EncWiped_KeepsKey(f) ==
    [f EXCEPT !.iv = 0, !.salt = 0, !.auth_tag = ZeroTag]

\* the wipe block of the encrypt pipeline
EncWiped(f) ==
    [f EXCEPT !.iv = 0, !.salt = 0, !.auth_tag = ZeroTag, !.derived_key = ZeroKey]

\* locals are initialised; a message over UINT32_MAX is refused on the spot
EncInit ==
    /\ pc = "enc_init"
    /\ IF ExceedsUINT32_MAX(args.message_length)
       THEN /\ Return(THEMIS_INVALID_PARAMETER)
            /\ frame' = frame
       ELSE /\ frame' = [NoFrame EXCEPT
                            !.kdf = <<EncInitKdf>>,
                            !.hdr = <<EncInitHdr(args.message_length, EncInitKdf)>>]
            /\ pc' = "enc_salt"
            /\ ret' = ret
    /\ UNCHANGED <<op, args, out, entry, log, ghost, probe, origin>>

EncRandSalt ==
    /\ pc = "enc_salt"
    /\ log' = Append(log, "rand_salt")
    /\ \/ \E r \in 1..MaxRand :
             /\ frame' = [frame EXCEPT !.salt = r, !.res = THEMIS_SUCCESS]
             /\ ghost' = [ghost EXCEPT !.rand = @ + 1]
             /\ pc' = "enc_pbkdf2"
       \/ \E e \in PrimitiveErrors :
             /\ frame' = [frame EXCEPT !.res = e]
             /\ ghost' = [Fault(ghost, "rand_salt", e) EXCEPT !.rand = @ + 1]
             /\ pc' = "enc_wipe"
    /\ UNCHANGED <<op, args, out, entry, ret, probe, origin>>

EncPbkdf2 ==
    /\ pc = "enc_pbkdf2"
    /\ log' = Append(log, "pbkdf2")
    /\ LET key == soter_pbkdf2_sha256(args.passphrase, args.passphrase_length,
                                      frame.salt, frame.kdf[1].salt_length,
                                      frame.kdf[1].iteration_count,
                                      THEMIS_AUTH_SYM_KEY_LENGTH \div 8)
           g == [ghost EXCEPT !.pbkdf2 =
                    Append(@, [len |-> THEMIS_AUTH_SYM_KEY_LENGTH \div 8, key |-> key,
                               alg |-> frame.hdr[1].alg])]
       IN  \/ /\ frame' = [frame EXCEPT !.derived_key = key, !.res = THEMIS_SUCCESS]
              /\ ghost' = g
              /\ pc' = "enc_iv"
           \/ \E e \in PrimitiveErrors :
                 /\ frame' = [frame EXCEPT !.res = e]
                 /\ ghost' = Fault(g, "pbkdf2", e)
                 /\ pc' = "enc_wipe"
    /\ UNCHANGED <<op, args, out, entry, ret, probe, origin>>

EncRandIv ==
    /\ pc = "enc_iv"
    /\ log' = Append(log, "rand_iv")
    /\ \/ \E r \in 1..MaxRand :
             /\ frame' = [frame EXCEPT !.iv = r, !.res = THEMIS_SUCCESS]
             /\ ghost' = [ghost EXCEPT !.rand = @ + 1]
             /\ pc' = "enc_aead"
       \/ \E e \in PrimitiveErrors :
             /\ frame' = [frame EXCEPT !.res = e]
             /\ ghost' = [Fault(ghost, "rand_iv", e) EXCEPT !.rand = @ + 1]
             /\ pc' = "enc_wipe"
    /\ UNCHANGED <<op, args, out, entry, ret, probe, origin>>

\* the AEAD writes straight into the caller's ciphertext buffer and length
\* cell; then the tag length it reports is compared with the header's
EncAead ==
    /\ pc = "enc_aead"
    /\ LET hdr == frame.hdr[1]
           alg == soter_alg_without_kdf(hdr.alg)
           r == themis_auth_sym_plain_encrypt(alg, frame.derived_key, frame.iv,
                    hdr.iv_length, args.user_context, args.user_context_length,
                    args.message, CastU32(args.message_length))
           g == [ghost EXCEPT !.aead =
                    Append(@, [alg |-> alg, key |-> frame.derived_key, hdr_alg |-> hdr.alg])]
           written == [out EXCEPT
                         !.encrypted_message = <<[val |-> r.ct, len |-> r.ctlen]>>,
                         !.encrypted_message_length = SizeT(0, r.ctlen)]
       IN  \/ /\ frame' = [frame EXCEPT !.auth_tag = r.tag, !.res = THEMIS_SUCCESS,
                                         !.auth_tag_length = hdr.auth_tag_length]
              /\ out' = written
              /\ ghost' = g
              /\ log' = Append(log, "aead")
              /\ pc' = "enc_token_size"
           \/ \* the AEAD reports another tag length than was allocated
              /\ frame' = [frame EXCEPT !.auth_tag = r.tag, !.res = THEMIS_FAIL,
                                         !.auth_tag_length = hdr.auth_tag_length - 1]
              /\ out' = written
              /\ ghost' = Fault(g, "tag_length", THEMIS_FAIL)
              /\ log' = log \o <<"aead", "tag_length">>
              /\ pc' = "enc_wipe"
           \/ \E e \in PrimitiveErrors :
                 /\ frame' = [frame EXCEPT !.res = e]
                 /\ out' = out
                 /\ ghost' = Fault(g, "aead", e)
                 /\ log' = Append(log, "aead")
                 /\ pc' = "enc_wipe"
    /\ UNCHANGED <<op, args, entry, ret, probe, origin>>

EncTokenSize ==
    /\ pc = "enc_token_size"
    /\ log' = Append(log, "token_size")
    /\ IF out.auth_token_length < themis_scell_auth_token_passphrase_size(frame.hdr[1])
       THEN /\ frame' = [frame EXCEPT !.res = THEMIS_BUFFER_TOO_SMALL]
            /\ ghost' = [Failed(ghost, "token_size", THEMIS_BUFFER_TOO_SMALL)
                            EXCEPT !.inner_bts = TRUE]
            /\ pc' = "enc_wipe"
       ELSE /\ pc' = "enc_write_hdr"
            /\ UNCHANGED <<frame, ghost>>
    /\ UNCHANGED <<op, args, out, entry, ret, probe, origin>>

\* a write through a NULL auth_token is undefined: the process dies, or the
\* stores are lost and the call goes on
EncWriteHeader ==
    /\ pc = "enc_write_hdr"
    /\ log' = Append(log, "write_hdr")
    /\ IF ~args.auth_token
       THEN /\ \/ pc' = "crashed" /\ frame' = frame
               \/ pc' = "enc_write_kdf" /\ frame' = [frame EXCEPT !.res = THEMIS_SUCCESS]
            /\ UNCHANGED <<out, ghost>>
       ELSE \/ /\ out' = [out EXCEPT !.auth_token =
                             <<themis_write_scell_auth_token_passphrase(
                                   frame.hdr[1], frame.iv, frame.auth_tag)>>]
               /\ frame' = [frame EXCEPT !.res = THEMIS_SUCCESS]
               /\ ghost' = ghost
               /\ pc' = "enc_write_kdf"
            \/ \E e \in PrimitiveErrors :
                  /\ frame' = [frame EXCEPT !.res = e]
                  /\ ghost' = Fault(ghost, "write_hdr", e)
                  /\ out' = out
                  /\ pc' = "enc_wipe"
    /\ UNCHANGED <<op, args, entry, ret, probe, origin>>

\* the second write pass, and on success the two out-lengths
EncWriteKdf ==
    /\ pc = "enc_write_kdf"
    /\ log' = Append(log, "write_kdf")
    /\ LET done == [out EXCEPT
                      !.auth_token_length =
                          themis_scell_auth_token_passphrase_size(frame.hdr[1]),
                      !.encrypted_message_length = args.message_length]
       IN  IF ~args.auth_token
           THEN /\ \/ pc' = "crashed" /\ out' = out /\ frame' = frame
                   \/ /\ pc' = "enc_wipe"
                      /\ out' = done
                      /\ frame' = [frame EXCEPT !.res = THEMIS_SUCCESS]
                /\ ghost' = ghost
           ELSE \/ /\ out' = [done EXCEPT !.auth_token =
                                 <<themis_write_scell_pbkdf2_context(
                                       out.auth_token[1], frame.kdf[1], frame.salt)>>]
                   /\ frame' = [frame EXCEPT !.res = THEMIS_SUCCESS]
                   /\ ghost' = ghost
                   /\ pc' = "enc_wipe"
                \/ \E e \in PrimitiveErrors :
                      /\ frame' = [frame EXCEPT !.res = e]
                      /\ ghost' = Fault(ghost, "write_kdf", e)
                      /\ out' = out
                      /\ pc' = "enc_wipe"
    /\ UNCHANGED <<op, args, entry, ret, probe, origin>>

\* the error: label: wipe the four buffers, return res
EncWipe ==
    /\ pc = "enc_wipe"
    /\ frame' = EncWiped(frame)
    /\ ghost' = [ghost EXCEPT !.wiped = TRUE]
    /\ log' = Append(log, "wipe")
    /\ Return(frame.res)
    /\ UNCHANGED <<op, args, out, entry, probe, origin>>

(************************ decrypt: the inputs *****************************)
MakeAlg(kdf, key_bits, extra) ==
    BitOr(BitOr(SOTER_SYM_AES_GCM, kdf), BitOr(Word(key_bits), extra))

\* algorithm ids of tokens that did not come from this build's encrypt
ForeignAlgs ==
    {MakeAlg(SOTER_SYM_PBKDF2, k, {}) : k \in {0, 128, 129, 135, 136, 192, 256, 257}}
    \cup {MakeAlg(SOTER_SYM_NOKDF, 256, {}), MakeAlg({25}, 256, {}),
          MakeAlg({24, 25}, 256, {}), MakeAlg(SOTER_SYM_PBKDF2, 256, {12}),
          MakeAlg(SOTER_SYM_PBKDF2, 256, {20}), MakeAlg(SOTER_SYM_PBKDF2, 128, {31})}

\* a token as another build would have produced it for passphrase 1, no
\* context, salt 1, IV 1 and a message of n bytes
ForeignToken(alg, n, kdf_length) ==
    LET key == soter_pbkdf2_sha256(1, 6, 1, THEMIS_AUTH_SYM_PBKDF2_SALT_LENGTH,
                   THEMIS_AUTH_SYM_PBKDF2_ITERATIONS,
                   WordValue(BitAnd(alg, SOTER_SYM_KEY_LENGTH_MASK)) \div 8)
        r == themis_auth_sym_plain_encrypt(
                 BitAnd(alg, BitNot(SOTER_SYM_KDF_MASK)), key, 1,
                 THEMIS_AUTH_SYM_IV_LENGTH, 0, 0, 1, n)
    IN  [alg |-> alg, iv_length |-> THEMIS_AUTH_SYM_IV_LENGTH,
         auth_tag_length |-> THEMIS_AUTH_SYM_AUTH_TAG_LENGTH, message_length |-> n,
         kdf_context_length |-> kdf_length, iv |-> 1, auth_tag |-> r.tag,
         kdf_context |-> <<[iteration_count |-> THEMIS_AUTH_SYM_PBKDF2_ITERATIONS,
                            salt_length |-> THEMIS_AUTH_SYM_PBKDF2_SALT_LENGTH,
                            salt |-> 1]>>]

ForeignCiphertext(token) ==
    themis_auth_sym_plain_encrypt({}, token.auth_tag.key, token.iv, token.iv_length,
                                  0, 0, 1, token.message_length).ct

KdfContextSize == themis_scell_pbkdf2_context_min_size + THEMIS_AUTH_SYM_PBKDF2_SALT_LENGTH

ForeignTokens ==
    {ForeignToken(alg, n, KdfContextSize) : alg \in ForeignAlgs, n \in 1..MaxMsgLen}
    \cup {ForeignToken(THEMIS_AUTH_SYM_PASSPHRASE_ALG, n, KdfContextSize - 1) :
             n \in 1..MaxMsgLen}

\* the token argument: NULL, or a token with the length the caller states
TokenArgs ==
    {[ptr |-> FALSE, length |-> 0, wire |-> <<>>]}
    \cup UNION {{[ptr |-> TRUE, length |-> n, wire |-> <<t>>] :
                    n \in {0, themis_scell_auth_token_passphrase_min_size - 1,
                           WireSize(t) - 1, WireSize(t)}} :
                 t \in ForeignTokens}

DecryptArgs(pass, ctx, tok, ct, msgp, msglp) ==
    [passphrase |-> pass.ptr, passphrase_length |-> pass.len,
     user_context |-> ctx.ptr, user_context_length |-> ctx.len,
     auth_token |-> tok.ptr, auth_token_length |-> tok.length, token |-> tok.wire,
     encrypted_message |-> ct.ptr, encrypted_message_length |-> ct.len,
     ciphertext |-> ct.val,
     message |-> msgp, message_length |-> msglp]

\* the caller invokes themis_auth_sym_decrypt_message_with_passphrase on a
\* token and a ciphertext from elsewhere
DecryptEntry ==
    /\ pc = "idle"
    /\ \E pass \in PassArgs, ctx \in CtxArgs, tok \in TokenArgs,
          ctn \in 0..MaxMsgLen, ctp \in BOOLEAN,
          msgp \in BOOLEAN, msglp \in BOOLEAN, cap \in 0..(MaxMsgLen + MaxSlack) :
          /\ ~msglp => cap = 0
          /\ ~ctp => ctn = 0
          /\ args' = DecryptArgs(pass, ctx, tok,
                          [ptr |-> ctp, len |-> ctn,
                           val |-> IF ctp /\ tok.ptr THEN ForeignCiphertext(tok.wire[1])
                                                      ELSE 0],
                          msgp, msglp)
          /\ out' = [message |-> <<>>, message_length |-> cap]
    /\ entry' = out'
    /\ probe' = <<>>
    /\ origin' = <<>>
    /\ Begin("decrypt", "dec_params")

\* the caller decrypts what the encrypt call that just succeeded produced
DecryptProduced ==
    /\ pc = "returned" /\ op = "encrypt" /\ ret = THEMIS_SUCCESS
    /\ out.auth_token # <<>> /\ out.encrypted_message # <<>>
    /\ \E pass \in {p \in PassArgs : p.ptr # 0 /\ p.len # 0},
          ctx \in {c \in CtxArgs : (c.ptr # 0) = (c.len # 0)},
          short \in 0..1, ctp \in BOOLEAN, msgp \in BOOLEAN,
          cap \in 0..(MaxMsgLen + MaxSlack) :
          /\ args' = DecryptArgs(pass, ctx,
                          [ptr |-> TRUE, length |-> out.auth_token_length - short,
                           wire |-> out.auth_token],
                          IF ctp THEN [ptr |-> TRUE,
                                       len |-> CastU32(out.encrypted_message_length),
                                       val |-> out.encrypted_message[1].val]
                                 ELSE [ptr |-> FALSE, len |-> 0, val |-> 0],
                          msgp, TRUE)
          /\ out' = [message |-> <<>>, message_length |-> cap]
          /\ origin' = <<[passphrase |-> args.passphrase,
                          passphrase_length |-> args.passphrase_length,
                          user_context |-> args.user_context,
                          user_context_length |-> args.user_context_length,
                          message |-> args.message,
                          message_length |-> CastU32(args.message_length),
                          intact |-> short = 0 /\ ctp]>>
    /\ entry' = out'
    /\ probe' = <<>>
    /\ Begin("decrypt", "dec_params")

\* after buffer-too-small the caller calls again with the same inputs and
\* another message buffer
DecryptRetry ==
    /\ pc = "returned" /\ op = "decrypt" /\ ret = THEMIS_BUFFER_TOO_SMALL
    /\ \E msgp \in BOOLEAN, cap \in 0..(MaxMsgLen + MaxSlack) :
          /\ args' = [args EXCEPT !.message = msgp]
          /\ out' = [message |-> <<>>, message_length |-> cap]
    /\ entry' = out'
    /\ probe' = <<[message_length |-> out.message_length]>>
    /\ origin' = origin
    /\ Begin("decrypt", "dec_params")

(************************ decrypt: entry point ****************************)
\* THEMIS_CHECK_PARAM block of the decrypt entry point
DecryptParamsValid(a) ==
    /\ a.passphrase # 0 /\ a.passphrase_length # 0
    /\ IF a.user_context # 0 THEN a.user_context_length # 0
                             ELSE a.user_context_length = 0
    /\ a.auth_token /\ a.auth_token_length # 0
    /\ a.message_length

DecryptCheckParams ==
    /\ pc = "dec_params"
    /\ IF DecryptParamsValid(args)
       THEN pc' = "dec_negotiate" /\ ret' = ret
       ELSE Return(THEMIS_INVALID_PARAMETER)
    /\ UNCHANGED <<op, args, out, entry, frame, log, ghost, probe, origin>>

\* the condition under which the entry point only reports the size
DecryptMustProbe(a, o, expected_message_length) ==
    \/ ~a.message
    \/ o.message_length < expected_message_length

\* the quick guess of the plaintext size, then the size negotiation
DecryptNegotiate ==
    /\ pc = "dec_negotiate"
    /\ IF ~themis_scell_auth_token_message_size_ok(args.token[1], args.auth_token_length)
       THEN Return(THEMIS_DATA_CORRUPT) /\ out' = out
       ELSE LET expected_message_length == args.token[1].message_length
            IN  IF DecryptMustProbe(args, out, expected_message_length)
                THEN /\ out' = [out EXCEPT !.message_length = expected_message_length]
                     /\ Return(THEMIS_BUFFER_TOO_SMALL)
                ELSE /\ pc' = "dec_ciphertext"
                     /\ UNCHANGED <<out, ret>>
    /\ UNCHANGED <<op, args, entry, frame, log, ghost, probe, origin>>

\* the ciphertext is looked at only once sizes are settled
DecryptCheckCiphertext ==
    /\ pc = "dec_ciphertext"
    /\ IF args.encrypted_message /\ args.encrypted_message_length # 0
       THEN /\ pc' = "dec_read"
            /\ ghost' = [ghost EXCEPT !.inner = TRUE]
            /\ ret' = ret
       ELSE /\ Return(THEMIS_INVALID_PARAMETER)
            /\ ghost' = ghost
    /\ UNCHANGED <<op, args, out, entry, frame, log, probe, origin>>

(*********************** decrypt: inner pipeline **************************)
\* the KDF selector of the header is one this build supports
DecKdfSupported(alg) ==
    BitAnd(alg, SOTER_SYM_KDF_MASK) = SOTER_SYM_PBKDF2

\* the derived-key length the header asks for is one of the three known
DecKeyLengthSupported(derived_key_length) ==
    derived_key_length \in {SOTER_SYM_256_KEY_LENGTH \div 8,
                            SOTER_SYM_192_KEY_LENGTH \div 8,
                            SOTER_SYM_128_KEY_LENGTH \div 8}

\* the declared message length is that of the ciphertext supplied
DecLengthConsistent(hdr, encrypted_message_length) ==
    hdr.message_length = encrypted_message_length

\* the wipe block of the decrypt pipeline
DecWiped(f) == [f EXCEPT !.derived_key = ZeroKey]

DecReadToken ==
    /\ pc = "dec_read"
    /\ log' = Append(log, "read_token")
    /\ IF themis_read_scell_auth_token_passphrase_ok(args.token[1], args.auth_token_length)
       THEN /\ frame' = [NoFrame EXCEPT
                            !.hdr = <<themis_read_scell_auth_token_passphrase(args.token[1])>>,
                            !.res = THEMIS_SUCCESS]
            /\ pc' = "dec_validate"
            /\ UNCHANGED <<ret, ghost>>
       ELSE /\ Return(THEMIS_DATA_CORRUPT)
            /\ ghost' = Failed(ghost, "read_token", THEMIS_DATA_CORRUPT)
            /\ frame' = [NoFrame EXCEPT !.res = THEMIS_DATA_CORRUPT]
    /\ UNCHANGED <<op, args, out, entry, probe, origin>>

\* length consistency, KDF selector, key length, reserved bits
DecValidate ==
    /\ pc = "dec_validate"
    /\ log' = Append(log, "validate")
    /\ LET hdr == frame.hdr[1]
           derived_key_length == soter_alg_key_length(hdr.alg)
       IN  IF /\ DecLengthConsistent(hdr, args.encrypted_message_length)
              /\ DecKdfSupported(hdr.alg)
              /\ DecKeyLengthSupported(derived_key_length)
              /\ soter_alg_reserved_bits_valid(hdr.alg)
           THEN /\ frame' = [frame EXCEPT !.derived_key_length = derived_key_length]
                /\ pc' = "dec_read_kdf"
                /\ UNCHANGED <<ret, ghost>>
           ELSE /\ Return(THEMIS_FAIL)
                /\ ghost' = Failed(ghost, "validate", THEMIS_FAIL)
                /\ frame' = frame
    /\ UNCHANGED <<op, args, out, entry, probe, origin>>

DecReadKdf ==
    /\ pc = "dec_read_kdf"
    /\ log' = Append(log, "read_kdf")
    /\ IF themis_read_scell_pbkdf2_context_ok(args.token[1])
       THEN /\ frame' = [frame EXCEPT
                            !.kdf = <<themis_read_scell_pbkdf2_context(args.token[1])>>,
                            !.res = THEMIS_SUCCESS]
            /\ pc' = "dec_pbkdf2"
            /\ UNCHANGED <<ret, ghost>>
       ELSE /\ Return(THEMIS_DATA_CORRUPT)
            /\ ghost' = Failed(ghost, "read_kdf", THEMIS_DATA_CORRUPT)
            /\ frame' = [frame EXCEPT !.res = THEMIS_DATA_CORRUPT]
    /\ UNCHANGED <<op, args, out, entry, probe, origin>>

\* kdf.salt points into the token
DecPbkdf2 ==
    /\ pc = "dec_pbkdf2"
    /\ log' = Append(log, "pbkdf2")
    /\ LET key == soter_pbkdf2_sha256(args.passphrase, args.passphrase_length,
                                      args.token[1].kdf_context[1].salt,
                                      frame.kdf[1].salt_length,
                                      frame.kdf[1].iteration_count,
                                      frame.derived_key_length)
           g == [ghost EXCEPT !.pbkdf2 =
                    Append(@, [len |-> frame.derived_key_length, key |-> key,
                               alg |-> frame.hdr[1].alg])]
       IN  \/ /\ frame' = [frame EXCEPT !.derived_key = key, !.res = THEMIS_SUCCESS]
              /\ ghost' = g
              /\ pc' = "dec_aead"
           \/ \E e \in PrimitiveErrors :
                 /\ frame' = [frame EXCEPT !.res = e]
                 /\ ghost' = Fault(g, "pbkdf2", e)
                 /\ pc' = "dec_wipe"
    /\ UNCHANGED <<op, args, out, entry, ret, probe, origin>>

\* hdr.iv and hdr.auth_tag point into the token; the AEAD writes straight
\* into the caller's message buffer and length cell; its status is kept in
\* res and control goes on to the length check
DecAead ==
    /\ pc = "dec_aead"
    /\ log' = Append(log, "aead")
    /\ LET hdr == frame.hdr[1]
           alg == soter_alg_without_kdf(hdr.alg)
           r == themis_auth_sym_plain_decrypt(alg, frame.derived_key,
                    args.token[1].iv, hdr.iv_length,
                    args.user_context, args.user_context_length,
                    args.ciphertext, args.encrypted_message_length,
                    args.token[1].auth_tag)
           g == [ghost EXCEPT !.aead =
                    Append(@, [alg |-> alg, key |-> frame.derived_key, hdr_alg |-> hdr.alg])]
       IN  \/ /\ r.ok
              /\ out' = [out EXCEPT !.message = <<[val |-> r.msg, len |-> r.msglen]>>,
                                    !.message_length = r.msglen]
              /\ frame' = [frame EXCEPT !.res = THEMIS_SUCCESS]
              /\ ghost' = g
           \/ \* the tag does not verify
              /\ ~r.ok
              /\ out' = out
              /\ frame' = [frame EXCEPT !.res = THEMIS_FAIL]
              /\ ghost' = Failed(g, "aead", THEMIS_FAIL)
           \/ \* the AEAD reports success and another plaintext length
              /\ r.ok
              /\ out' = [out EXCEPT !.message = <<[val |-> r.msg, len |-> r.msglen - 1]>>,
                                    !.message_length = r.msglen - 1]
              /\ frame' = [frame EXCEPT !.res = THEMIS_SUCCESS]
              /\ ghost' = [g EXCEPT !.faulted = TRUE]
           \/ \E e \in PrimitiveErrors :
                 /\ out' = out
                 /\ frame' = [frame EXCEPT !.res = e]
                 /\ ghost' = Fault(g, "aead", e)
    /\ pc' = "dec_sanity"
    /\ UNCHANGED <<op, args, entry, ret, probe, origin>>

\* the sanity check of the resulting message length
DecSanity ==
    /\ pc = "dec_sanity"
    /\ log' = Append(log, "sanity")
    /\ IF out.message_length # args.encrypted_message_length
       THEN /\ frame' = [frame EXCEPT !.res = THEMIS_FAIL]
            /\ ghost' = Failed(ghost, "sanity", THEMIS_FAIL)
       ELSE UNCHANGED <<frame, ghost>>
    /\ pc' = "dec_wipe"
    /\ UNCHANGED <<op, args, out, entry, ret, probe, origin>>

\* the error: label: wipe the derived key, return res
DecWipe ==
    /\ pc = "dec_wipe"
    /\ frame' = DecWiped(frame)
    /\ ghost' = [ghost EXCEPT !.wiped = TRUE]
    /\ log' = Append(log, "wipe")
    /\ Return(frame.res)
    /\ UNCHANGED <<op, args, out, entry, probe, origin>>

Init ==
    /\ pc = "idle"
    /\ op = "none"
    /\ args = <<>>
    /\ out = <<>>
    /\ entry = <<>>
    /\ frame = NoFrame
    /\ ret = "none"
    /\ log = <<>>
    /\ ghost = NoGhost
    /\ probe = <<>>
    /\ origin = <<>>

Next ==
    \/ EncryptEntry
    \/ EncryptRetry
    \/ EncryptCheckParams
    \/ EncryptNegotiate
    \/ EncInit
    \/ EncRandSalt
    \/ EncPbkdf2
    \/ EncRandIv
    \/ EncAead
    \/ EncTokenSize
    \/ EncWriteHeader
    \/ EncWriteKdf
    \/ EncWipe
    \/ DecryptEntry
    \/ DecryptProduced
    \/ DecryptRetry
    \/ DecryptCheckParams
    \/ DecryptNegotiate
    \/ DecryptCheckCiphertext
    \/ DecReadToken
    \/ DecValidate
    \/ DecReadKdf
    \/ DecPbkdf2
    \/ DecAead
    \/ DecSanity
    \/ DecWipe

Spec == Init /\ [][Next]_vars

(***************************************************************************)
(* Properties.  The bit-fields are restated here from the data model, not  *)
(* taken from the helpers under check.                                     *)
(***************************************************************************)
KdfFieldBits == 24..27
KeyLengthFieldBits == 0..11
ReservedBits == (12..15) \cup (20..23)
KeyLengthField(alg) == WordValue(alg \cap KeyLengthFieldBits)
Before(a, b) == \E i, j \in 1..Len(log) : i < j /\ log[i] = a /\ log[j] = b

\* C1 (round trip): when decrypt is given what a successful encrypt produced
\* (token and ciphertext intact), the same passphrase and context and a
\* message buffer large enough, and every primitive behaves as the ideal
\* one, it returns success, the original message and its length.
C1_RoundTrip ==
    ( /\ pc = "returned" /\ op = "decrypt"
      /\ origin # <<>> /\ origin[1].intact
      /\ args.passphrase = origin[1].passphrase
      /\ args.passphrase_length = origin[1].passphrase_length
      /\ args.user_context = origin[1].user_context
      /\ args.user_context_length = origin[1].user_context_length
      /\ args.message /\ entry.message_length >= origin[1].message_length
      /\ ~ghost.faulted )
    => /\ ret = THEMIS_SUCCESS
       /\ out.message = <<[val |-> origin[1].message, len |-> origin[1].message_length]>>
       /\ out.message_length = origin[1].message_length

C1_Witness ==
    /\ pc = "returned" /\ op = "decrypt" /\ ret = THEMIS_SUCCESS
    /\ origin # <<>> /\ origin[1].intact
    /\ origin[1].message = 2 /\ origin[1].message_length = MaxMsgLen
    /\ origin[1].user_context # 0
    /\ out.message = <<[val |-> 2, len |-> MaxMsgLen]>>
    /\ entry.message_length > MaxMsgLen

\* C2 (encrypt size negotiation): with valid parameters, whenever the token
\* buffer or the ciphertext buffer is absent or an out-length is too small,
\* no primitive runs, no output buffer is written, and the call returns
\* buffer-too-small with both required sizes written back.
C2_ProbeDoesNothing ==
    ( /\ op = "encrypt" /\ EncryptParamsValid(args)
      /\ ~ExceedsUINT32_MAX(args.message_length)
      /\ \/ ~args.auth_token
         \/ ~args.encrypted_message
         \/ entry.auth_token_length < DEFAULT_AUTH_TOKEN_SIZE
         \/ SizeLT(entry.encrypted_message_length, args.message_length) )
    => /\ ghost.rand = 0 /\ ghost.pbkdf2 = <<>> /\ ghost.aead = <<>>
       /\ out.auth_token = <<>> /\ out.encrypted_message = <<>>
       /\ pc = "returned" =>
            /\ ret = THEMIS_BUFFER_TOO_SMALL
            /\ out.auth_token_length = DEFAULT_AUTH_TOKEN_SIZE
            /\ out.encrypted_message_length = args.message_length

\* C3 (no partial outputs): a call that returns another status than success
\* leaves the caller's outputs as they were at entry, except the out-lengths
\* when the status is buffer-too-small.  Stated for the calls that C2's
\* absent token buffer does not touch.
C3_NoPartialOutputs ==
    (pc = "returned" /\ ret # THEMIS_SUCCESS /\ (op = "encrypt" => args.auth_token))
    => IF ret = THEMIS_BUFFER_TOO_SMALL
       THEN IF op = "encrypt"
            THEN /\ out.auth_token = entry.auth_token
                 /\ out.encrypted_message = entry.encrypted_message
            ELSE out.message = entry.message
       ELSE out = entry

C5_SingleDerivation ==
    /\ Len(ghost.pbkdf2) <= 1
    /\ Len(ghost.aead) <= 1
    /\ ghost.aead # <<>> =>
         /\ Len(ghost.pbkdf2) = 1
         /\ Before("pbkdf2", "aead")
         /\ ghost.aead[1].alg \cap KdfFieldBits = SOTER_SYM_NOKDF
         /\ ghost.aead[1].alg \ KdfFieldBits = ghost.aead[1].hdr_alg \ KdfFieldBits
         /\ ghost.aead[1].key = ghost.pbkdf2[1].key
         /\ ghost.aead[1].key # ZeroKey

C5_Witness ==
    /\ op = "decrypt" /\ ghost.aead # <<>>
    /\ ghost.aead[1].hdr_alg # THEMIS_AUTH_SYM_PASSPHRASE_ALG
    /\ 31 \in ghost.aead[1].hdr_alg
    /\ ghost.aead[1].hdr_alg \cap KdfFieldBits # {}

\* C6 (key-length validation): decrypt reaches PBKDF2 or the AEAD only for a
\* key-length field of exactly 128, 192 or 256 bits, and asks PBKDF2 for
\* exactly 16, 24 or 32 bytes.
C6_KeyLengthExact ==
    (op = "decrypt" /\ (ghost.pbkdf2 # <<>> \/ ghost.aead # <<>>))
    => /\ KeyLengthField(args.token[1].alg) \in {128, 192, 256}
       /\ \A i \in 1..Len(ghost.pbkdf2) :
            ghost.pbkdf2[i].len * 8 = KeyLengthField(args.token[1].alg)

\* a token that decrypt has to refuse
C7_BadToken ==
    \/ args.token[1].alg \cap ReservedBits # {}
    \/ args.token[1].alg \cap KdfFieldBits # {24}
    \/ args.token[1].message_length # args.encrypted_message_length

\* C7 (token validation guard): a token with a reserved bit set, a KDF
\* selector other than PBKDF2, or a declared length other than the
\* ciphertext's never reaches PBKDF2 or the AEAD, and once the message
\* buffer is large enough the call returns a failure status.
C7_ValidationGuard ==
    (op = "decrypt" /\ args.token # <<>> /\ C7_BadToken)
    => /\ ghost.pbkdf2 = <<>> /\ ghost.aead = <<>>
       /\ ( /\ pc = "returned" /\ args.message
            /\ entry.message_length >= args.token[1].message_length )
          => ret \notin {THEMIS_SUCCESS, THEMIS_BUFFER_TOO_SMALL}

C7_Witness ==
    /\ op = "decrypt" /\ pc = "returned" /\ ghost.inner
    /\ args.token[1].alg \cap ReservedBits # {}
    /\ args.token[1].alg \cap KdfFieldBits = {24}
    /\ args.token[1].message_length = args.encrypted_message_length
    /\ KeyLengthField(args.token[1].alg) = 256
    /\ log = <<"read_token", "validate">>
    /\ ret = THEMIS_FAIL

\* C8 (sizing consistency): an undersized out-length gets buffer-too-small
\* and sizes at least those a successful call stores; a retry with exactly
\* the probed sizes is never refused by the inner token-size check; a
\* second probe writes the same sizes; for decrypt the probed size is the
\* token's declared length, which a successful call stores.
C8_Sizing ==
    /\ ( /\ op = "encrypt" /\ pc = "returned" /\ EncryptParamsValid(args)
         /\ \/ entry.auth_token_length
                 < themis_scell_auth_token_passphrase_size(
                       EncInitHdr(args.message_length, EncInitKdf))
            \/ SizeLT(entry.encrypted_message_length, args.message_length) )
       => /\ ret = THEMIS_BUFFER_TOO_SMALL
          /\ out.auth_token_length
               >= themis_scell_auth_token_passphrase_size(
                      EncInitHdr(args.message_length, EncInitKdf))
          /\ out.encrypted_message_length = args.message_length
    /\ (op = "encrypt" /\ probe # <<>> /\ probe[1].exact) => ~ghost.inner_bts
    /\ (op = "encrypt" /\ pc = "returned" /\ probe # <<>>) =>
          /\ ret = THEMIS_SUCCESS =>
               /\ out.auth_token_length <= probe[1].auth_token_length
               /\ out.encrypted_message_length = probe[1].encrypted_message_length
          /\ ret = THEMIS_BUFFER_TOO_SMALL =>
               /\ out.auth_token_length = probe[1].auth_token_length
               /\ out.encrypted_message_length = probe[1].encrypted_message_length
    /\ ( /\ op = "decrypt" /\ pc = "returned" /\ DecryptParamsValid(args)
         /\ args.auth_token_length >= themis_scell_auth_token_passphrase_min_size
         /\ entry.message_length < args.token[1].message_length )
       => /\ ret = THEMIS_BUFFER_TOO_SMALL
          /\ out.message_length = args.token[1].message_length
    /\ (op = "decrypt" /\ pc = "returned" /\ ret = THEMIS_SUCCESS)
       => out.message_length = args.token[1].message_length
    /\ ( /\ op = "decrypt" /\ pc = "returned" /\ probe # <<>>
         /\ ret \in {THEMIS_SUCCESS, THEMIS_BUFFER_TOO_SMALL} )
       => out.message_length = probe[1].message_length

C8_Witness ==
    /\ op = "encrypt" /\ pc = "returned" /\ ret = THEMIS_SUCCESS
    /\ probe # <<>> /\ probe[1].exact
    /\ out.auth_token # <<>>
    /\ out.auth_token_length = probe[1].auth_token_length
    /\ "token_size" \in {log[i] : i \in 1..Len(log)}

\* C9 (first error wins): once a pipeline step has failed, control is at
\* the wipe block or has returned, and the status returned is that of the
\* first failing step.
C9_FirstErrorWins ==
    ghost.first_fail # <<>>
    => /\ pc \in {"enc_wipe", "dec_wipe", "returned"}
       /\ pc = "returned" => ret = ghost.first_fail[1].status

\* a precondition of the call in flight is violated
C10_PreconditionViolated ==
    IF op = "encrypt"
    THEN ~EncryptParamsValid(args) \/ ExceedsUINT32_MAX(args.message_length)
    ELSE \/ ~DecryptParamsValid(args)
         \/ args.message /\ (~args.encrypted_message \/ args.encrypted_message_length = 0)

\* C10 (precondition precedence): every precondition violation returns
\* invalid-parameter, whatever the state of the output buffers.
C10_InvalidParameterFirst ==
    (pc = "returned" /\ C10_PreconditionViolated) => ret = THEMIS_INVALID_PARAMETER

====
